---- MODULE Spec2Model ----
(***************************************************************************)
(* Model of src/src/pages/manage.tsx: the Explore page's client-side       *)
(* profile filter (Profiles, Explore) and the Manage page's membership     *)
(* actions (GroupCard, ActionCard, Manage).                                *)
(*                                                                         *)
(* JavaScript values are encoded as follows.                               *)
(*   - a string (a name, an e-mail, the query, an enum value) is a         *)
(*     sequence of character codes (<<85, 97>> is "Ua");                   *)
(*   - a value whose type admits null is NULL or Some(v);                  *)
(*   - an object whose keys are optional (the filter) is a function whose  *)
(*     DOMAIN holds exactly the keys that are not undefined.               *)
(***************************************************************************)
EXTENDS Integers, Sequences, FiniteSets, TLC

VARIABLES
    profiles,          \* data of trpc.profile.getAll.useQuery()
    status,            \* status of that query: "loading", "success", "error"
                       \* ("idle" while the Explore page is not open)
    query,             \* Explore's useState("") query
    filter,            \* Explore's useState({}) filter
    filteredProfiles,  \* what Profiles renders (<<>> while nothing is rendered)
    members,           \* server side: the memberships of the group
    deleted,           \* server side: the group has been deleted
    view,              \* per user: data of trpc.membership.getCurrent.useQuery()
    last               \* the last mutation the server executed

filterVars == <<profiles, status, query, filter, filteredProfiles>>
groupVars == <<members, deleted, view, last>>
vars == <<profiles, status, query, filter, filteredProfiles, members, deleted, view, last>>

----------------------------------------------------------------------------
(* Bounds of the model *)

MaxStrLen == 2      \* longest user name, e-mail and query that is enumerated
MaxScore == 10      \* largest neatness / social energy score that is enumerated
MaxMembers == 3     \* largest group

----------------------------------------------------------------------------
(* JavaScript values *)

NULL == <<>>
Some(v) == <<v>>
Val(x) == x[1]

\* !!x for a nullable string: false on null and on the empty string
Truthy(x) == x # NULL /\ Val(x) # <<>>

\* a slip: the default of the caller is dropped for 0
CoalesceDefaultsToZero(o, k, d) == IF k \in DOMAIN o /\ o[k] # NULL THEN Val(o[k]) ELSE 0

\* a ?? d, for the key k of the object o
Coalesce(o, k, d) == IF k \in DOMAIN o /\ o[k] # NULL THEN Val(o[k]) ELSE d

\* String.prototype.toLowerCase on ASCII: 'A'..'Z' (65..90) move up by 32
ToLowerCase(s) == [i \in 1..Len(s) |-> IF s[i] \in 65..90 THEN s[i] + 32 ELSE s[i]]

\* String.prototype.includes
Includes(s, q) == \E i \in 0..(Len(s) - Len(q)) : SubSeq(s, i + 1, i + Len(q)) = q

----------------------------------------------------------------------------
(* The filter callback of Profiles, lines 263-314 *)

\* a slip: "must equal" instead of "must not have"
ExcludesBooleanMustEqual(f, profile, X) == X \in DOMAIN f /\ f[X] # profile[X]

\* typeof filter.X !== "undefined" && !filter.X && profile.X
ExcludesBoolean(f, profile, X) == X \in DOMAIN f /\ ~f[X] /\ profile[X]

\* a slip: the test of profile.E is left out
ExcludesEnumAnyProfile(f, profile, E) == E \in DOMAIN f /\ Truthy(f[E]) /\ f[E] # profile[E]

\* !!filter.E && !!profile.E && filter.E !== profile.E
ExcludesEnum(f, profile, E) ==
    /\ E \in DOMAIN f
    /\ Truthy(f[E])
    /\ Truthy(profile[E])
    /\ f[E] # profile[E]

\* a slip: >= for >, an exclusive bound
ExcludesMinimumExclusive(f, profile, minimum_X, X) ==
    Coalesce(f, minimum_X, -10) + 10 >= profile[X]

\* (filter.minimum_X ?? -10) + 10 > profile.X
ExcludesMinimum(f, profile, minimum_X, X) == Coalesce(f, minimum_X, -10) + 10 > profile[X]

\* a slip: the query is not lower-cased
OptionalIncludesRawQuery(s, q) ==
    IF s = NULL THEN FALSE ELSE Includes(ToLowerCase(Val(s)), q)

\* s?.toLowerCase().includes(query.toLowerCase()): undefined (falsy) on null
OptionalIncludes(s, q) ==
    IF s = NULL THEN FALSE ELSE Includes(ToLowerCase(Val(s)), ToLowerCase(q))

\* the return expression, lines 309-313
MatchesQuery(profile, q) ==
    \/ OptionalIncludes(profile.user.name, q)
    \/ OptionalIncludes(profile.user.email, q)
    \/ Includes(ToLowerCase(Val(profile.school)), ToLowerCase(q))

\* the callback: the early "return false" tests in source order, then the query
Keeps(profile, q, f) ==
    IF ExcludesBoolean(f, profile, "alcohol") THEN FALSE
    ELSE IF ExcludesEnum(f, profile, "assigned_sex") THEN FALSE
    ELSE IF ExcludesBoolean(f, profile, "committed") THEN FALSE
    ELSE IF ExcludesEnum(f, profile, "day_volume") THEN FALSE
    ELSE IF ExcludesBoolean(f, profile, "drugs") THEN FALSE
    ELSE IF ExcludesMinimum(f, profile, "minimum_neatness", "neatness") THEN FALSE
    ELSE IF ExcludesEnum(f, profile, "night_volume") THEN FALSE
    ELSE IF ExcludesEnum(f, profile, "school") THEN FALSE
    ELSE IF ExcludesBoolean(f, profile, "snore") THEN FALSE
    ELSE IF ExcludesMinimum(f, profile, "minimum_social_energy_level",
                            "social_energy_level") THEN FALSE
    ELSE IF ExcludesEnum(f, profile, "status") THEN FALSE
    ELSE MatchesQuery(profile, q)

\* profiles.filter(callback)
filterProfiles(ps, q, f) == SelectSeq(ps, LAMBDA profile : Keeps(profile, q, f))

----------------------------------------------------------------------------
(* The inputs that are enumerated *)

\* 'U', 'u', 'a': an upper-case letter, its lower-case form, and another letter
Alphabet == {85, 117, 97}

Strs(n) == UNION {[1..k -> Alphabet] : k \in 0..n}

\* two representative values of each Prisma enum (lines 199, 400-463)
UCLA == <<85, 67, 76, 65>>
USC == <<85, 83, 67>>
School == {UCLA, USC}
Sex == {<<77>>, <<70>>}
Volume == {<<81>>, <<76>>}
Status == {<<89>>, <<78>>}

BoolFields == {"alcohol", "committed", "drugs", "snore"}
EnumFields == {"assigned_sex", "day_volume", "night_volume", "school", "status"}
EnumValues(E) ==
    CASE E = "assigned_sex" -> Sex
      [] E = "day_volume" -> Volume
      [] E = "night_volume" -> Volume
      [] E = "school" -> School
      [] E = "status" -> Status
MinimumOf == [neatness |-> "minimum_neatness",
              social_energy_level |-> "minimum_social_energy_level"]
ScoreFields == DOMAIN MinimumOf

Scores == (-1)..MaxScore
Minimums == (-11)..(MaxScore - 10)

\* all functions from a subset of the keys K to V: an object with optional keys
Optional(K, V) == UNION {[S -> V] : S \in SUBSET K}

BaseProfile ==
    [alcohol |-> TRUE, committed |-> FALSE, drugs |-> FALSE, snore |-> TRUE,
     assigned_sex |-> Some(<<77>>), day_volume |-> Some(<<76>>),
     night_volume |-> NULL, status |-> Some(<<89>>), school |-> Some(UCLA),
     neatness |-> 5, social_energy_level |-> 5,
     user |-> [name |-> Some(<<85, 97>>), email |-> NULL]]

\* what the other fields are while one group of fields runs over all its values:
\* nothing set; a query that matches nothing; one excluding test of each kind;
\* set fields that exclude nothing
Backgrounds ==
    {[p |-> <<>>, f |-> <<>>, q |-> <<>>],
     [p |-> <<>>, f |-> <<>>, q |-> <<117, 117>>],
     [p |-> [drugs |-> TRUE], f |-> [drugs |-> FALSE], q |-> <<>>],
     [p |-> <<>>, f |-> [status |-> Some(<<78>>)], q |-> <<>>],
     [p |-> <<>>, f |-> [minimum_social_energy_level |-> Some(0)], q |-> <<>>],
     [p |-> <<>>,
      f |-> [snore |-> TRUE, committed |-> FALSE, day_volume |-> Some(<<76>>),
             night_volume |-> Some(<<81>>), assigned_sex |-> NULL,
             minimum_neatness |-> Some(-5), minimum_social_energy_level |-> NULL],
      q |-> <<65>>]}

Input(b, p, f, q) == [profile |-> p @@ b.p @@ BaseProfile, filter |-> f @@ b.f, query |-> q]

BooleanInputs ==
    {Input(b, p, f, b.q) :
        b \in Backgrounds, p \in [BoolFields -> BOOLEAN], f \in Optional(BoolFields, BOOLEAN)}

EnumInputs ==
    UNION {{Input(b, p, f, b.q) :
              b \in Backgrounds,
              p \in [{E} -> {NULL} \cup {Some(v) : v \in EnumValues(E)}]
                      \ [{"school"} -> {NULL}],
              f \in Optional({E}, {NULL} \cup {Some(v) : v \in EnumValues(E)})} :
           E \in EnumFields}

ScoreInputs ==
    UNION {{Input(b, p, f, b.q) :
              b \in Backgrounds,
              p \in [{X} -> Scores],
              f \in Optional({MinimumOf[X]}, {NULL} \cup {Some(m) : m \in Minimums})} :
           X \in ScoreFields}

Names == {NULL} \cup {Some(s) : s \in Strs(MaxStrLen)}
FewNames == {NULL, Some(<<>>), Some(<<85, 117>>)}
ProfileUsers == [name : Names, email : FewNames] \cup [name : FewNames, email : Names]

TextInputs ==
    {Input(b, [user |-> u, school |-> Some(s)], <<>>, q) :
        b \in {c \in Backgrounds : c.q = <<>> /\ c.f = <<>>}, u \in ProfileUsers, s \in School,
        q \in Strs(MaxStrLen)}

Inputs == BooleanInputs \cup EnumInputs \cup ScoreInputs \cup TextInputs

----------------------------------------------------------------------------
(* The Explore page *)

\* what Profiles renders, lines 258-323: nothing of the list unless the query
\* succeeded
Rendered(st, ps, q, f) == IF st = "success" THEN filterProfiles(ps, q, f) ELSE <<>>

InitExplore ==
    /\ \E i \in Inputs :
          /\ profiles = <<i.profile>>
          /\ query = i.query
          /\ filter = i.filter
    /\ status = "loading"
    /\ filteredProfiles = <<>>

\* trpc.profile.getAll.useQuery() delivers its data (line 258)
QuerySuccess ==
    /\ status = "loading"
    /\ status' = "success"
    /\ filteredProfiles' = Rendered("success", profiles, query, filter)
    /\ UNCHANGED <<profiles, query, filter>>
    /\ UNCHANGED groupVars

\* the query fails (line 261)
QueryError ==
    /\ status = "loading"
    /\ status' = "error"
    /\ filteredProfiles' = <<>>
    /\ UNCHANGED <<profiles, query, filter>>
    /\ UNCHANGED groupVars

\* the Reset button, lines 355-359: setFilter({})
Reset ==
    /\ filter # <<>>
    /\ filter' = <<>>
    /\ filteredProfiles' = Rendered(status, profiles, query, <<>>)
    /\ UNCHANGED <<profiles, status, query>>
    /\ UNCHANGED groupVars

\* the Manage page is not open: no group is looked at
NoGroup ==
    /\ members = {}
    /\ deleted = FALSE
    /\ view = <<>>
    /\ last = [kind |-> "none"]

InitFilter == InitExplore /\ NoGroup

NextFilter == QuerySuccess \/ QueryError \/ Reset

SpecFilter == InitFilter /\ [][NextFilter]_vars

----------------------------------------------------------------------------
(* Properties of the filter *)

\* the object o without its key k
Without(o, k) == [j \in DOMAIN o \ {k} |-> o[j]]

\* the rendered list holds the one profile / holds nothing
Kept == filteredProfiles = profiles
Dropped == filteredProfiles = <<>>

\* the threshold as the specification states it
Threshold(f, minimum_X) ==
    IF minimum_X \in DOMAIN f /\ f[minimum_X] # NULL THEN Val(f[minimum_X]) + 10 ELSE 0

\* the exclusion conditions as the specification states them
BooleanExcluded(f, profile, X) == X \in DOMAIN f /\ f[X] = FALSE /\ profile[X] = TRUE
EnumExcluded(f, profile, E) ==
    E \in DOMAIN f /\ f[E] # NULL /\ profile[E] # NULL /\ f[E] # profile[E]
ScoreExcluded(f, profile, X) == profile[X] < Threshold(f, MinimumOf[X])

PassesStructured(f, profile) ==
    /\ \A X \in BoolFields : ~BooleanExcluded(f, profile, X)
    /\ \A E \in EnumFields : ~EnumExcluded(f, profile, E)
    /\ \A X \in ScoreFields : ~ScoreExcluded(f, profile, X)

NullToEmpty(x) == IF x = NULL THEN <<>> ELSE Val(x)

\* C1 as stated: with the empty query and the empty filter, every profile is kept,
\* whatever its fields.
C1_AnyProfileKept ==
    (status = "success" /\ query = <<>> /\ filter = <<>>) => Kept

\* C1 as amended: with the empty query and the empty filter, every profile whose
\* neatness and social energy level are at least 0 is kept.
C1_NonNegativeProfileKept ==
    (/\ status = "success" /\ query = <<>> /\ filter = <<>>
     /\ profiles[1].neatness >= 0
     /\ profiles[1].social_energy_level >= 0) => Kept

C1_Witness ==
    /\ status = "success" /\ query = <<>> /\ filter = <<>>
    /\ profiles[1].user = [name |-> NULL, email |-> NULL]
    /\ profiles[1].alcohol
    /\ profiles[1].neatness >= 0 /\ profiles[1].social_energy_level >= 0
    /\ Kept

\* C2: a boolean field X drops the profile exactly when filter.X is false and
\* profile.X is true; otherwise the result is the one obtained with filter.X unset.
C2_BooleanExclusion ==
    status = "success" =>
        \A X \in BoolFields :
            IF BooleanExcluded(filter, profiles[1], X)
            THEN Dropped
            ELSE filteredProfiles = filterProfiles(profiles, query, Without(filter, X))

C2_Witness ==
    /\ status = "success"
    /\ BooleanExcluded(filter, profiles[1], "alcohol")
    /\ filterProfiles(profiles, query, Without(filter, "alcohol")) = profiles
    /\ Dropped

\* C3: a score X drops the profile exactly when profile.X is below the threshold,
\* which is minimum_X + 10 when minimum_X is set and 0 when it is unset or null;
\* otherwise the result is the one obtained for a profile whose X is at the top.
C3_MinimumThreshold ==
    status = "success" =>
        \A X \in ScoreFields :
            IF ScoreExcluded(filter, profiles[1], X)
            THEN Dropped
            ELSE /\ Kept \/ Dropped
                 /\ Kept <=> Keeps([profiles[1] EXCEPT ![X] = MaxScore], query, filter)

C3_Witness ==
    /\ status = "success"
    /\ profiles[1].neatness = 5
    /\ "minimum_neatness" \in DOMAIN filter
    /\ filter.minimum_neatness = Some(-5)
    /\ Kept

\* C4: a profile that passes every structured criterion is kept iff the query is
\* empty or its lower-cased form is part of the lower-cased name, e-mail or
\* school, a null name or e-mail counting as the empty string.
C4_QueryMatch ==
    (status = "success" /\ PassesStructured(filter, profiles[1])) =>
        /\ Kept \/ Dropped
        /\ Kept <=>
            \/ query = <<>>
            \/ Includes(ToLowerCase(NullToEmpty(profiles[1].user.name)), ToLowerCase(query))
            \/ Includes(ToLowerCase(NullToEmpty(profiles[1].user.email)), ToLowerCase(query))
            \/ Includes(ToLowerCase(Val(profiles[1].school)), ToLowerCase(query))

C4_Witness ==
    /\ status = "success"
    /\ PassesStructured(filter, profiles[1])
    /\ profiles[1].user.name = NULL
    /\ query = <<85, 85>>
    /\ Kept

\* C5: an enum field E drops the profile exactly when filter.E and profile.E are
\* both non-null and differ; otherwise the result is the one obtained with
\* filter.E unset.
C5_EnumExclusion ==
    status = "success" =>
        \A E \in EnumFields :
            IF EnumExcluded(filter, profiles[1], E)
            THEN Dropped
            ELSE filteredProfiles = filterProfiles(profiles, query, Without(filter, E))

C5_Witness ==
    /\ status = "success"
    /\ EnumExcluded(filter, profiles[1], "school")
    /\ filterProfiles(profiles, query, Without(filter, "school")) = profiles
    /\ Dropped

----------------------------------------------------------------------------
(* The Manage page: GroupCard and ActionCard *)

Users == 1..MaxMembers
Role == {"ADMIN", "MEMBER"}

\* the membership of user u: its id differs from the id of the user
Member(u, role) == [id |-> u + MaxMembers, userId |-> u, role |-> role]

\* trpc.membership.getCurrent.useQuery(), line 151: the caller's membership with
\* its group and the group's members, or null (line 156) without a membership
GetCurrent(u, ms) ==
    IF \E m \in ms : m.userId = u
    THEN LET m == CHOOSE x \in ms : x.userId = u
         IN  Some([id |-> m.id, userId |-> m.userId, role |-> m.role,
                   group |-> [members |-> ms]])
    ELSE NULL

\* a slip: only the caller's own entry is protected
RemoveDisabledSelfOnly(membership, member) == member.userId = membership.userId

\* a slip: only an admin's entry is protected
RemoveDisabledAdminOnly(membership, member) == member.role = "ADMIN"

\* disabled of the Remove button, lines 63-66
RemoveDisabled(membership, member) ==
    member.role = "ADMIN" \/ member.userId = membership.userId

\* the Delete button is rendered, line 121
DeleteRendered(membership) == membership.role = "ADMIN"

\* a slip: the number of members is not looked at
DeleteDisabledAnySize(membership) == membership.role # "ADMIN"

\* a slip: > 0 for > 1
DeleteDisabledOffByOne(membership) ==
    membership.role # "ADMIN" \/ Cardinality(membership.group.members) > 0

\* disabled of the Delete button, lines 126-129
DeleteDisabled(membership) ==
    membership.role # "ADMIN" \/ Cardinality(membership.group.members) > 1

\* a slip: an admin that is alone may leave
LeaveDisabledUnlessAlone(membership) ==
    membership.role = "ADMIN" /\ Cardinality(membership.group.members) > 1

\* disabled of the Leave button, line 138
LeaveDisabled(membership) == membership.role = "ADMIN"

\* what a click can do
CanRemoveMember(membership, member) == ~RemoveDisabled(membership, member)
CanDeleteGroup(membership) == DeleteRendered(membership) /\ ~DeleteDisabled(membership)
CanLeaveGroup(membership) == ~LeaveDisabled(membership)

\* the server's membership.delete({id}): the membership leaves the group
DeleteMembership(ms, id) == {m \in ms : m.id # id}

InitManage ==
    /\ \E n \in 1..MaxMembers : \E roles \in [1..n -> Role] :
          members = {Member(u, roles[u]) : u \in 1..n}
    /\ deleted = FALSE
    /\ view = [u \in Users |-> NULL]
    /\ last = [kind |-> "none"]

\* Manage renders with the data of its query, lines 151-164 (a refetch included)
Fetch(u) ==
    /\ u \in DOMAIN view
    /\ view[u] # GetCurrent(u, members)
    /\ view' = [view EXCEPT ![u] = GetCurrent(u, members)]
    /\ UNCHANGED <<members, deleted, last>>
    /\ UNCHANGED filterVars

\* a click on Remove next to member t, lines 56-70, and the mutation of lines
\* 21-29: on success the membership query is invalidated and fetched again
RemoveMember(u, t) ==
    /\ u \in DOMAIN view
    /\ view[u] # NULL
    /\ t \in Val(view[u]).group.members
    /\ CanRemoveMember(Val(view[u]), t)
    /\ t \in members
    /\ members' = DeleteMembership(members, t.id)
    /\ last' = [kind |-> "remove", by |-> Val(view[u]), target |-> t, before |-> members]
    /\ view' = [view EXCEPT ![u] = GetCurrent(u, members')]
    /\ UNCHANGED deleted
    /\ UNCHANGED filterVars

\* a click on Leave, lines 134-141, and the mutation of lines 87-95
LeaveGroup(u) ==
    /\ u \in DOMAIN view
    /\ view[u] # NULL
    /\ CanLeaveGroup(Val(view[u]))
    /\ \E m \in members : m.id = Val(view[u]).id
    /\ members' = DeleteMembership(members, Val(view[u]).id)
    /\ last' = [kind |-> "leave", by |-> Val(view[u]),
                target |-> CHOOSE m \in members : m.id = Val(view[u]).id,
                before |-> members]
    /\ view' = [view EXCEPT ![u] = GetCurrent(u, members')]
    /\ UNCHANGED deleted
    /\ UNCHANGED filterVars

\* a click on Delete, lines 121-133, and the mutation of lines 97-105: the
\* server's groups.delete({id}) ends the group and its memberships
DeleteGroup(u) ==
    /\ u \in DOMAIN view
    /\ view[u] # NULL
    /\ CanDeleteGroup(Val(view[u]))
    /\ ~deleted
    /\ deleted' = TRUE
    /\ members' = {}
    /\ last' = [kind |-> "delete", by |-> Val(view[u]),
                target |-> Val(view[u]), before |-> members]
    /\ view' = [view EXCEPT ![u] = GetCurrent(u, members')]
    /\ UNCHANGED filterVars

\* the Explore page is not open: no query is under way
NoExplore ==
    /\ profiles = <<>>
    /\ status = "idle"
    /\ query = <<>>
    /\ filter = <<>>
    /\ filteredProfiles = <<>>

InitGroup == InitManage /\ NoExplore

NextGroup ==
    \/ \E u \in Users : Fetch(u)
    \/ \E u \in Users : \E t \in members : RemoveMember(u, t)
    \/ \E u \in Users : LeaveGroup(u)
    \/ \E u \in Users : DeleteGroup(u)

SpecGroup == InitGroup /\ [][NextGroup]_vars

----------------------------------------------------------------------------
(* Either page *)

Init == InitFilter \/ InitGroup

Next == NextFilter \/ NextGroup

Spec == Init /\ [][Next]_vars

----------------------------------------------------------------------------
(* Properties of the membership actions *)

\* the memberships that are fetched and shown at the moment
Views == {Val(view[u]) : u \in {x \in DOMAIN view : view[x] # NULL}}

Admins(ms) == {m \in ms : m.role = "ADMIN"}

\* C6: Remove is permitted on a member iff the member is no ADMIN and is not the
\* viewer, whatever the viewer's role; every removal the server executed was of
\* such a member.
C6_RemovePermission ==
    /\ \A membership \in Views : \A member \in membership.group.members :
          CanRemoveMember(membership, member) <=>
              (member.role # "ADMIN" /\ member.userId # membership.userId)
    /\ last.kind = "remove" =>
          (last.target.role # "ADMIN" /\ last.target.userId # last.by.userId)

C6_Witness ==
    /\ last.kind = "remove"
    /\ last.by.role = "MEMBER"
    /\ \E membership \in Views : \E member \in membership.group.members :
          member.role = "ADMIN" /\ member.userId # membership.userId

\* C7: Delete is permitted iff the membership's role is ADMIN and its group has
\* at most one member; every deletion the server executed was so permitted.
C7_DeletePermission ==
    /\ \A membership \in Views :
          CanDeleteGroup(membership) <=>
              (membership.role = "ADMIN" /\ Cardinality(membership.group.members) <= 1)
    /\ last.kind = "delete" =>
          (last.by.role = "ADMIN" /\ Cardinality(last.by.group.members) <= 1)

C7_Witness ==
    /\ last.kind = "delete"
    /\ deleted
    /\ Cardinality(last.before) = 1
    /\ \E membership \in Views : CanLeaveGroup(membership)

\* C8: Leave is permitted iff the membership's role is not ADMIN, whatever the
\* size of the group; every leave the server executed was by a non-ADMIN.
C8_LeavePermission ==
    /\ \A membership \in Views :
          CanLeaveGroup(membership) <=> membership.role # "ADMIN"
    /\ last.kind = "leave" => last.by.role # "ADMIN"

C8_Witness ==
    /\ last.kind = "leave"
    /\ \E membership \in Views :
          membership.role = "ADMIN" /\ Cardinality(membership.group.members) = 1

\* the group ended by delete-group, taken by an ADMIN that was its only member
EndedBySoleAdmin ==
    /\ last.kind = "delete"
    /\ last.by.role = "ADMIN"
    /\ last.before = {m \in last.before : m.userId = last.by.userId}
    /\ Cardinality(last.before) = 1

\* C9 as stated: whatever group of at least one member it started from, a group
\* that has not been deleted has at least one member, and a deleted group was
\* ended by an ADMIN that was its only member.
C9_AlwaysAMember ==
    IF deleted THEN EndedBySoleAdmin ELSE Cardinality(members) >= 1

\* C9 as amended: a group that contains an ADMIN keeps containing one (so it has
\* at least one member) until it is deleted, and it is deleted only by an ADMIN
\* that is its only member.
C9_AdminGroupKeepsAMember ==
    [][(~deleted /\ Admins(members) # {}) =>
          IF deleted' THEN EndedBySoleAdmin' ELSE Admins(members') # {}]_vars

C9_Witness ==
    /\ ~deleted
    /\ last.kind \in {"remove", "leave"}
    /\ Cardinality(last.before) = 2
    /\ Cardinality(members) = 1
    /\ Admins(members) # {}

\* what the members ms see right after a fetch
Fresh(ms) == {Val(GetCurrent(m.userId, ms)) : m \in ms}

\* some sequence of permitted remove, leave and delete actions, each taken on a
\* fetched page, deletes the group whose members are ms
RECURSIVE Deletable(_)
Deletable(ms) ==
    \/ \E membership \in Fresh(ms) : CanDeleteGroup(membership)
    \/ \E membership \in Fresh(ms) : \E member \in ms :
          /\ CanRemoveMember(membership, member)
          /\ Deletable(DeleteMembership(ms, member.id))
    \/ \E membership \in Fresh(ms) :
          /\ CanLeaveGroup(membership)
          /\ Deletable(DeleteMembership(ms, membership.id))

\* C10 as stated: every group that is not deleted and contains an ADMIN can
\* still be deleted by some sequence of permitted actions.
C10_AdminGroupDeletable ==
    (~deleted /\ Admins(members) # {}) => Deletable(members)

\* C10 as amended: every group that is not deleted and contains exactly one
\* ADMIN can still be deleted by some sequence of permitted actions.
C10_OneAdminGroupDeletable ==
    (~deleted /\ Cardinality(Admins(members)) = 1) => Deletable(members)

C10_Witness ==
    /\ ~deleted
    /\ last.kind \in {"remove", "leave"}
    /\ Cardinality(Admins(members)) = 1
    /\ Cardinality(members) >= 2
    /\ Deletable(members)

====
